---- MODULE Spec2Model ----
(***************************************************************************)
(* Model of curriculum_sort.py: a parallel corpus is split into difficulty *)
(* bins by the word frequencies of one side of each sentence pair.         *)
(*                                                                         *)
(* Spec     : one run of main(), statement by statement.  The command line *)
(*            and the three input files are chosen in Init.                *)
(* SpecRank : rank_sentence applied to one sentence drawn from a larger    *)
(*            set of sentences and vocabularies.                           *)
(*                                                                         *)
(* Python values: a token and a line are strings, a sentence is a sequence *)
(* of tokens, a sentence pair is <<source sentence, target sentence>>, a   *)
(* dict is a function.  A call that may raise evaluates to a record        *)
(* [exc |-> name of the exception or "None", val |-> returned value].      *)
(***************************************************************************)
EXTENDS Integers, Sequences, FiniteSets, TLC

VARIABLES
    pc,          \* statement of main() that runs next (or at which it raised)
    exception,   \* uncaught exception that ended the run, "None" if none
    args,        \* the command line: threshold, side, averaged
    source_file, \* lines of the source-language file, already whitespace-split
    target_file, \* lines of the target-language file, already whitespace-split
    vocab_file,  \* word -> frequency table stored in the vocabulary file
    opened,      \* input files read so far
    dataset,     \* main's local: list of sentence pairs
    vocabulary,  \* main's local: dict word -> frequency
    bins,        \* main's local: dict threshold -> list of sentence pairs
    out_dir,     \* [exists, files]: output directory, files keyed by threshold
    random_idx,  \* print_stats: sample index drawn for each bin it reached
    sentence,    \* SpecRank: argument of rank_sentence
    sent_rank    \* SpecRank: outcome of rank_sentence

vars == <<pc, exception, args, source_file, target_file, vocab_file, opened,
          dataset, vocabulary, bins, out_dir, random_idx, sentence, sent_rank>>

(***************************************************************************)
(* Bounds and input sets                                                   *)
(***************************************************************************)
MaxCorpus == 2
MaxSentLen == 3
MaxFreq == 3

Words == {"a", "b", "x"}

\* Lines of the two corpus files in a run of main; <<>> is a blank line.
SourceSentences == {<<>>, <<"a">>, <<"b", "x">>}
TargetSentences == {<<>>, <<"b">>, <<"a", "b">>}

\* Vocabulary files in a run of main: "x" is never listed.
VocabFiles == [{"a", "b"} -> {1, 3}]

\* Values of the repeatable -threshold option; <<>> is the option left out.
ThresholdLists ==
    {<<>>, <<0>>, <<1>>, <<3>>, <<1, 0>>, <<0, 3>>, <<3, 1>>, <<2, 2>>,
     <<0, 1, 3>>}

\* Values of -side; "both" stands for any unrecognized value.
SideValues == {"source", "target", "both"}

BoundedSeq(S, n) == UNION {[1..k -> S] : k \in 0..n}

Range(s) == {s[i] : i \in 1..Len(s)}

Return(v) == [exc |-> "None", val |-> v]
Raise(e, v) == [exc |-> e, val |-> v]

(***************************************************************************)
(* rank_sentence                                                           *)
(***************************************************************************)
\* Variant: an unseen word is skipped instead of counted as 0.
frequencies_skip_unseen(sent, vocab) ==
    LET known == SelectSeq(sent, LAMBDA w : w \in DOMAIN vocab)
    IN [i \in 1..Len(known) |-> vocab[known[i]]]

\* The list built by the loop over the words: an unseen word counts 0.
frequencies(sent, vocab) ==
    [i \in 1..Len(sent) |->
        IF sent[i] \in DOMAIN vocab THEN vocab[sent[i]] ELSE 0]

RECURSIVE sum(_)
sum(s) == IF s = <<>> THEN 0 ELSE Head(s) + sum(Tail(s))

RECURSIVE min(_)
min(s) ==
    IF Len(s) = 1 THEN Head(s)
    ELSE LET m == min(Tail(s)) IN IF Head(s) < m THEN Head(s) ELSE m

\* Variant: round(a / b), the mean rounded to the nearest integer.
int_round(a, b) == (2 * a + b) \div (2 * b)

\* int(a / b) for b > 0: true division, then truncation toward zero.
int_truediv(a, b) == IF a >= 0 THEN a \div b ELSE -((-a) \div b)

rank_sentence(sent, vocab, averaged) ==
    LET freqs == frequencies(sent, vocab) IN
    IF averaged
    THEN IF Len(sent) = 0 THEN Raise("ZeroDivisionError", 0)
         ELSE Return(int_truediv(sum(freqs), Len(sent)))
    ELSE IF freqs = <<>> THEN Raise("ValueError", 0)
         ELSE Return(min(freqs))

(***************************************************************************)
(* assign_to_bins                                                          *)
(***************************************************************************)
\* Variant: sorted(keys) without reverse=True.
RECURSIVE sorted_ascending(_)
sorted_ascending(S) ==
    IF S = {} THEN <<>>
    ELSE LET m == CHOOSE x \in S : \A y \in S : x <= y
         IN <<m>> \o sorted_ascending(S \ {m})

RECURSIVE sorted_reverse(_)
sorted_reverse(S) ==
    IF S = {} THEN <<>>
    ELSE LET m == CHOOSE x \in S : \A y \in S : y <= x
         IN <<m>> \o sorted_reverse(S \ {m})

\* Variant: the strict comparison of the docstring, rank > threshold.
RECURSIVE walk_thresholds_strict(_, _)
walk_thresholds_strict(keys, rank) ==
    IF keys = <<>> THEN <<>>
    ELSE IF rank > Head(keys) THEN <<Head(keys)>>
    ELSE walk_thresholds_strict(Tail(keys), rank)

\* The inner loop: the first threshold of keys the rank reaches, if any.
RECURSIVE walk_thresholds(_, _)
walk_thresholds(keys, rank) ==
    IF keys = <<>> THEN <<>>
    ELSE IF rank >= Head(keys) THEN <<Head(keys)>>
    ELSE walk_thresholds(Tail(keys), rank)

\* Variant: the pair is inserted at the front of its bin.
append_pair_front(b, sent_pair, rank) ==
    LET hit == walk_thresholds(sorted_reverse(DOMAIN b), rank) IN
    IF hit = <<>> THEN b
    ELSE [b EXCEPT ![hit[1]] = <<sent_pair>> \o @]

append_pair(b, sent_pair, rank) ==
    LET hit == walk_thresholds(sorted_reverse(DOMAIN b), rank) IN
    IF hit = <<>> THEN b
    ELSE [b EXCEPT ![hit[1]] = Append(@, sent_pair)]

\* The loop over the dataset from position i on.  idx is bound only for the
\* two recognized sides, so reading it for another side raises.
RECURSIVE loop_dataset(_, _, _, _, _, _)
loop_dataset(b, data, i, vocab, side, averaged) ==
    IF i > Len(data) THEN Return(b)
    ELSE IF side \notin {"source", "target"} THEN Raise("UnboundLocalError", b)
    ELSE LET idx == IF side = "source" THEN 0 ELSE 1
             r == rank_sentence(data[i][idx + 1], vocab, averaged)
         IN IF r.exc # "None" THEN Raise(r.exc, b)
            ELSE loop_dataset(append_pair(b, data[i], r.val), data, i + 1,
                              vocab, side, averaged)

\* Variant: the earlier behaviour, empty bins are kept.
keep_empty_bins(b) == b

remove_empty_bins(b) ==
    [key \in {k \in DOMAIN b : b[k] # <<>>} |-> b[key]]

assign_to_bins(data, vocab, thresholds, side, averaged) ==
    LET r == loop_dataset([t \in Range(thresholds) |-> <<>>], data, 1,
                          vocab, side, averaged)
    IN IF r.exc # "None" THEN r ELSE Return(remove_empty_bins(r.val))

(***************************************************************************)
(* parse_args, load_dataset, load_vocabulary, write_to_files               *)
(***************************************************************************)
\* Variant: the threshold list is not validated.
parse_args_unchecked(argv) == Return(argv)

\* argparse leaves threshold None exactly when -threshold never occurs.
parse_args(argv) ==
    IF argv.threshold = <<>> THEN Raise("ValueError", argv) ELSE Return(argv)

\* zip of the two lists of tokenized lines.
load_dataset(lines_source, lines_target) ==
    LET n == IF Len(lines_source) < Len(lines_target)
             THEN Len(lines_source) ELSE Len(lines_target)
    IN [i \in 1..n |-> <<lines_source[i], lines_target[i]>>]

load_vocabulary(table) == table

RECURSIVE join(_)
join(sent) ==
    IF sent = <<>> THEN ""
    ELSE IF Len(sent) = 1 THEN sent[1]
    ELSE sent[1] \o " " \o join(Tail(sent))

\* Files src_<key>.txt and trg_<key>.txt as lists of lines.
write_to_files(b) ==
    [key \in DOMAIN b |->
        [src |-> [i \in 1..Len(b[key]) |-> join(b[key][i][1])],
         trg |-> [i \in 1..Len(b[key]) |-> join(b[key][i][2])]]]

(***************************************************************************)
(* main                                                                    *)
(***************************************************************************)
\* The two corpus files have the same number of lines (the pairing is by
\* position) and the output directory does not exist yet.
Init ==
    /\ pc = "parse_args"
    /\ exception = "None"
    /\ args \in [threshold : ThresholdLists, side : SideValues,
                 averaged : BOOLEAN]
    /\ \E n \in 0..MaxCorpus :
          /\ source_file \in [1..n -> SourceSentences]
          /\ target_file \in [1..n -> TargetSentences]
    /\ vocab_file \in VocabFiles
    /\ opened = {}
    /\ dataset = <<>>
    /\ vocabulary = <<>>
    /\ bins = <<>>
    /\ out_dir = [exists |-> FALSE, files |-> <<>>]
    /\ random_idx = <<>>
    /\ sentence = <<>>
    /\ sent_rank = Return(0)

main_parse_args ==
    /\ pc = "parse_args" /\ exception = "None"
    /\ LET r == parse_args(args) IN
       IF r.exc # "None"
       THEN /\ exception' = r.exc
            /\ UNCHANGED pc
       ELSE /\ pc' = "load_dataset"
            /\ UNCHANGED exception
    /\ UNCHANGED <<args, source_file, target_file, vocab_file, opened, dataset,
                   vocabulary, bins, out_dir, random_idx, sentence, sent_rank>>

main_load_dataset ==
    /\ pc = "load_dataset" /\ exception = "None"
    /\ dataset' = load_dataset(source_file, target_file)
    /\ opened' = opened \cup {"source_data", "target_data"}
    /\ pc' = "load_vocabulary"
    /\ UNCHANGED <<exception, args, source_file, target_file, vocab_file,
                   vocabulary, bins, out_dir, random_idx, sentence, sent_rank>>

main_load_vocabulary ==
    /\ pc = "load_vocabulary" /\ exception = "None"
    /\ vocabulary' = load_vocabulary(vocab_file)
    /\ opened' = opened \cup {"vocabulary"}
    /\ pc' = "assign_to_bins"
    /\ UNCHANGED <<exception, args, source_file, target_file, vocab_file,
                   dataset, bins, out_dir, random_idx, sentence, sent_rank>>

main_assign_to_bins ==
    /\ pc = "assign_to_bins" /\ exception = "None"
    /\ LET r == assign_to_bins(dataset, vocabulary, args.threshold, args.side,
                               args.averaged)
       IN IF r.exc # "None"
          THEN /\ exception' = r.exc
               /\ UNCHANGED <<pc, bins>>
          ELSE /\ bins' = r.val
               /\ pc' = "write_to_files"
               /\ UNCHANGED exception
    /\ UNCHANGED <<args, source_file, target_file, vocab_file, opened, dataset,
                   vocabulary, out_dir, random_idx, sentence, sent_rank>>

main_write_to_files ==
    /\ pc = "write_to_files" /\ exception = "None"
    /\ out_dir' = [exists |-> TRUE, files |-> write_to_files(bins)]
    /\ pc' = "print_stats"
    /\ UNCHANGED <<exception, args, source_file, target_file, vocab_file,
                   opened, dataset, vocabulary, bins, random_idx, sentence,
                   sent_rank>>

\* random.randint(0, n) returns any integer of 0..n, n included.
randint(lo, hi) == lo..hi

\* The loop over the bins, highest threshold first: each bin draws an index
\* and reads that element; the first index outside the bin raises and ends
\* the loop.
main_print_stats ==
    /\ pc = "print_stats" /\ exception = "None"
    /\ \E draw \in [DOMAIN bins -> 0..(MaxCorpus + 1)] :
          /\ \A key \in DOMAIN bins :
                draw[key] \in randint(0, Len(bins[key]))
          /\ LET bad == {key \in DOMAIN bins : draw[key] >= Len(bins[key])}
                 reached == {key \in DOMAIN bins :
                                \A k \in bad : key >= k}
             IN /\ random_idx' = [key \in reached |-> draw[key]]
                /\ IF bad # {}
                   THEN /\ exception' = "IndexError"
                        /\ UNCHANGED pc
                   ELSE /\ pc' = "exit"
                        /\ UNCHANGED exception
    /\ UNCHANGED <<args, source_file, target_file, vocab_file, opened, dataset,
                   vocabulary, bins, out_dir, sentence, sent_rank>>

Next ==
    \/ main_parse_args
    \/ main_load_dataset
    \/ main_load_vocabulary
    \/ main_assign_to_bins
    \/ main_write_to_files
    \/ main_print_stats

Spec == Init /\ [][Next]_vars

(***************************************************************************)
(* rank_sentence on its own                                                *)
(***************************************************************************)
InitRank ==
    /\ pc = "rank_sentence"
    /\ exception = "None"
    /\ args \in [threshold : {<<>>}, side : {"target"}, averaged : BOOLEAN]
    /\ source_file = <<>>
    /\ target_file = <<>>
    /\ vocab_file = <<>>
    /\ opened = {}
    /\ dataset = <<>>
    /\ \E known \in SUBSET Words : vocabulary \in [known -> 0..MaxFreq]
    /\ bins = <<>>
    /\ out_dir = [exists |-> FALSE, files |-> <<>>]
    /\ random_idx = <<>>
    /\ sentence \in BoundedSeq(Words, MaxSentLen)
    /\ sent_rank = Return(0)

call_rank_sentence ==
    /\ pc = "rank_sentence"
    /\ sent_rank' = rank_sentence(sentence, vocabulary, args.averaged)
    /\ pc' = "ranked"
    /\ UNCHANGED <<exception, args, source_file, target_file, vocab_file,
                   opened, dataset, vocabulary, bins, out_dir, random_idx,
                   sentence>>

NextRank == call_rank_sentence

SpecRank == InitRank /\ [][NextRank]_vars

(***************************************************************************)
(* Properties of a run of main (Spec)                                      *)
(***************************************************************************)
\* assign_to_bins has returned its mapping to main.
returned == pc \in {"write_to_files", "print_stats", "exit"}

written == pc \in {"print_stats", "exit"}

Thresholds == Range(args.threshold)

\* The sentence of a pair on the configured side, and its rank.
Selected(p) == IF args.side = "source" THEN p[1] ELSE p[2]

RankOf(p) == rank_sentence(Selected(p), vocabulary, args.averaged).val

\* T is the highest supplied threshold with T <= r.
HighestReached(T, r) ==
    /\ T \in Thresholds
    /\ T <= r
    /\ \A U \in Thresholds : U <= r => U <= T

InBin(p, T) == T \in DOMAIN bins /\ \E j \in 1..Len(bins[T]) : bins[T][j] = p

Count(s, p) == Cardinality({i \in 1..Len(s) : s[i] = p})

RECURSIVE CountInBins(_, _)
CountInBins(keys, p) ==
    IF keys = {} THEN 0
    ELSE LET k == CHOOSE x \in keys : TRUE
         IN Count(bins[k], p) + CountInBins(keys \ {k}, p)

RECURSIVE SizeOfBins(_)
SizeOfBins(keys) ==
    IF keys = {} THEN 0
    ELSE LET k == CHOOSE x \in keys : TRUE
         IN Len(bins[k]) + SizeOfBins(keys \ {k})

C3_EmptyBinsPruned ==
    returned =>
        /\ DOMAIN bins \subseteq Thresholds
        /\ \A T \in Thresholds :
              T \in DOMAIN bins <=>
                 \E i \in 1..Len(dataset) :
                    HighestReached(T, RankOf(dataset[i]))
        /\ \A T \in DOMAIN bins : bins[T] # <<>>

\* One threshold was pruned and another one kept.
C3_Witness ==
    /\ returned
    /\ \E T \in Thresholds : T \notin DOMAIN bins
    /\ \E T \in Thresholds : T \in DOMAIN bins

\* C6: an unrecognized side never lets assign_to_bins return a mapping, and
\* nothing is written.
C6_UnknownSideFailsFast ==
    args.side \notin {"source", "target"} =>
        /\ ~returned
        /\ out_dir.exists = FALSE

\* C7: with no -threshold option the run ends in parse_args: no input file
\* is read, nothing is assigned, written or reported.
C7_MissingThresholdsRejected ==
    args.threshold = <<>> =>
        /\ pc = "parse_args"
        /\ exception \in {"None", "ValueError"}
        /\ opened = {}
        /\ dataset = <<>> /\ vocabulary = <<>> /\ bins = <<>>
        /\ out_dir = [exists |-> FALSE, files |-> <<>>]
        /\ random_idx = <<>>

\* The run without thresholds has raised the configuration error.
C7_Witness ==
    /\ args.threshold = <<>>
    /\ pc = "parse_args"
    /\ exception = "ValueError"

\* C8: an empty sentence on the ranked side never aborts assign_to_bins with
\* the unhandled ZeroDivisionError or ValueError of rank_sentence.
C8_EmptySentenceDefined ==
    pc = "assign_to_bins" =>
        exception \notin {"ZeroDivisionError", "ValueError"}

RECURSIVE Filter(_, _)
Filter(s, T) ==
    IF s = <<>> THEN <<>>
    ELSE IF HighestReached(T, RankOf(Head(s)))
         THEN <<Head(s)>> \o Filter(Tail(s), T)
         ELSE Filter(Tail(s), T)

\* C9: every surviving bin is the corpus, in corpus order, restricted to the
\* pairs assigned to it, and after write_to_files line i of src_T and line i
\* of trg_T are the two sides of the i-th pair of bin T.
C9_OrderPreserved ==
    /\ returned => \A T \in DOMAIN bins : bins[T] = Filter(dataset, T)
    /\ written =>
          /\ DOMAIN out_dir.files = DOMAIN bins
          /\ \A T \in DOMAIN bins :
                /\ Len(out_dir.files[T].src) = Len(bins[T])
                /\ Len(out_dir.files[T].trg) = Len(bins[T])
                /\ \A i \in 1..Len(bins[T]) :
                      /\ out_dir.files[T].src[i] = join(bins[T][i][1])
                      /\ out_dir.files[T].trg[i] = join(bins[T][i][2])

\* A written bin of two different pairs.
C9_Witness ==
    /\ written
    /\ \E T \in DOMAIN bins :
          /\ Len(bins[T]) >= 2
          /\ bins[T][1] # bins[T][2]
          /\ out_dir.files[T].src[1] # out_dir.files[T].src[2]
          /\ out_dir.files[T].trg[1] # out_dir.files[T].trg[2]

\* C10: every index print_stats draws is a position of its bin, so main
\* never fails in print_stats.
C10_SampleIndexValid ==
    /\ \A key \in DOMAIN random_idx : random_idx[key] < Len(bins[key])
    /\ exception # "IndexError"

(***************************************************************************)
(* Properties of rank_sentence (SpecRank)                                  *)
(***************************************************************************)
Unseen(w) == w \notin DOMAIN vocabulary

\* Sum over the words of Words of (occurrences in sentence) * frequency.
RECURSIVE WeightedSum(_)
WeightedSum(ws) ==
    IF ws = {} THEN 0
    ELSE LET w == CHOOSE x \in ws : TRUE
         IN (IF Unseen(w) THEN 0 ELSE Count(sentence, w) * vocabulary[w])
            + WeightedSum(ws \ {w})

\* C4: in minimum mode a non-empty sentence with a word absent from the
\* vocabulary ranks 0, and a sentence of known words ranks the minimum of
\* their frequencies.
C4_MinimumMode ==
    (pc = "ranked" /\ ~args.averaged /\ sentence # <<>>) =>
        /\ sent_rank.exc = "None"
        /\ (\E w \in Range(sentence) : Unseen(w)) => sent_rank.val = 0
        /\ (\A w \in Range(sentence) : ~Unseen(w)) =>
              /\ \E w \in Range(sentence) : sent_rank.val = vocabulary[w]
              /\ \A w \in Range(sentence) : sent_rank.val <= vocabulary[w]

\* An unseen word among known words of positive frequency was ranked.
C4_Witness ==
    /\ pc = "ranked" /\ ~args.averaged
    /\ \E w \in Range(sentence) : Unseen(w)
    /\ \E w \in Range(sentence) : ~Unseen(w) /\ vocabulary[w] > 0
    /\ sent_rank = Return(0)

\* C5: in averaged mode a non-empty sentence ranks the floor of (sum of its
\* words' frequencies, 0 for unseen words) / (number of tokens).
C5_AveragedMode ==
    (pc = "ranked" /\ args.averaged /\ sentence # <<>>) =>
        /\ sent_rank.exc = "None"
        /\ sent_rank.val * Len(sentence) <= WeightedSum(Words)
        /\ WeightedSum(Words) < (sent_rank.val + 1) * Len(sentence)

\* A mean that is not an integer, with an unseen word in the sentence.
C5_Witness ==
    /\ pc = "ranked" /\ args.averaged
    /\ \E w \in Range(sentence) : Unseen(w)
    /\ sent_rank.exc = "None"
    /\ sent_rank.val > 0
    /\ sent_rank.val * Len(sentence) < WeightedSum(Words)
====
